---- MODULE Spec2Model ----
(***************************************************************************)
(* better-elysia: the annotation registry, the deferred publication of     *)
(* route metadata, the service container, the controller and socket        *)
(* initializers, ElysiaFactory.create and the wrapped request handlers,    *)
(* as one state machine on a single-threaded event loop.                   *)
(*                                                                         *)
(* A program is a boot script: class definitions (their decorators run in  *)
(* the order the language fixes: parameter decorators, method decorators,  *)
(* class decorators), spread over one or more synchronous passes, followed *)
(* by calls of ElysiaFactory.create.  Between passes the event loop runs   *)
(* process.nextTick callbacks and promise continuations.                   *)
(***************************************************************************)
EXTENDS Integers, Sequences, FiniteSets, TLC

\* ------------------------------------------------------------------ bounds
MaxRoutes == 2          \* route annotations evaluated in one program
MaxBeforeStart == 2     \* length of options.beforeStart
MaxCreates == 1         \* calls of ElysiaFactory.create in one process
MaxPasses == 2          \* synchronous passes of boot script
MaxListed == 2          \* length of a module's controller list
MaxIndex == 3           \* highest parameter index of a handler
MaxBindings == 3        \* parameter decorators on one handler
MaxYield == 2           \* values a streaming handler produces
MaxAwaits == 2          \* awaits inside one beforeStart callback
MaxSets == 3            \* calls of CacheProvider.set
MaxTime == 3            \* seconds the clock runs

\* console.error(...) before process.exit(-1)
Alive == "alive"
ServiceExists == "Service already exists"
ServiceUndefined == "Injected service is undefined"
InvalidModule == "Invalid class module"

\* ----------------------------------------------------------------- options
None == <<>>
Some(x) == <<x>>
IsSome(o) == Len(o) > 0
Val(o) == o[1]
Undefined == "undefined"

\* ---------------------------------------------------------------- universe
Controllers == {"K1", "K2"}
Sockets == {"W1"}
ModuleClass == "AppModule"
ServiceClasses == {"Mailer", "Store", "Store2"}
PlainClasses == {"Plain"}       \* classes declared without a class decorator
Classes == Controllers \cup Sockets \cup {ModuleClass} \cup PlainClasses

\* Function.name of a class: Store2 is a second class that is also called Store.
ClassName(cls) == IF cls = "Store2" THEN "Store" ELSE cls
ServiceNames == {ClassName(s) : s \in ServiceClasses}

HttpMethods == {"get", "post", "put", "delete", "patch"}

\* A path is the sequence of its characters.
Slash == "/"
DefaultPath == <<Slash>>
Paths == {<<"a">>, <<Slash, "b">>}
Prefixes == {<<"p">>, <<Slash, "q">>}
Tags == {"pets"}

Handlers == Controllers \X (1..MaxRoutes)

\* String.prototype.startsWith("/") and the template `/${path}`
StartsWithSlash(p) == Len(p) > 0 /\ p[1] = Slash
\* A path taken as it is given.
PathAsGiven(p) == p

NormalizePath(p) == IF StartsWithSlash(p) THEN p ELSE <<Slash>> \o p

\* Keys and time-to-live arguments of the cache calls.
Keys == {"k1", "k2"}
Ttls == {-1, 0, 1, 2}

VARIABLES
    running,       \* a synchronous pass of the boot script is on the stack
    passes,        \* synchronous passes started so far
    exited,        \* Alive, or the diagnostic printed before process.exit(-1)
    cur,           \* the class definition being evaluated: None or Some([cls, m])
    declared,      \* history: per class, the route annotations in evaluation order
    bindings,      \* history: per handler, the parameter decorators in evaluation order
    generators,    \* the handler functions that are generator functions
    handlerMeta,   \* Reflect metadata attached to handler functions
    classMeta,     \* Reflect metadata attached to classes
    ServicesMap,   \* class name -> service instance
    serviceLog,    \* history: per service class, how often Service was applied to it
                   \* and how often it was constructed
    tickQueue,     \* process.nextTick callbacks, first in first out
    microQueue,    \* promise continuations, first in first out
    creates,       \* the calls of ElysiaFactory.create, each with its engine app
    req,           \* the request being served: None or Some(record)
    memoryCache,   \* CacheProvider: key -> stored value
    timers,        \* CacheProvider: the setTimeout callbacks not yet run
    now,           \* seconds since the process started
    setCalls,      \* history: the calls of CacheProvider.set, in order
    expired        \* history: the entries that timers removed

cacheVars == <<memoryCache, timers, now, setCalls, expired>>
vars == <<running, passes, exited, cur, declared, bindings, generators, handlerMeta,
          classMeta, ServicesMap, serviceLog, tickQueue, microQueue, creates, req,
          cacheVars>>


\* ------------------------------------------------------------ initial state
EmptyHandlerMeta ==
    [body |-> None, param |-> None, query |-> None, rawContext |-> None,
     customDecorators |-> <<>>, public |-> FALSE]

EmptyClassMeta ==
    [metadata |-> <<>>, socket |-> None, initialize |-> None, tag |-> None,
     controllers |-> None, paramtypes |-> <<>>]

Init ==
    /\ running = TRUE
    /\ passes = 1
    /\ exited = Alive
    /\ cur = None
    /\ declared = [c \in Controllers |-> <<>>]
    /\ bindings = [h \in Handlers |-> <<>>]
    /\ generators = {}
    /\ handlerMeta = [h \in Handlers |-> EmptyHandlerMeta]
    /\ classMeta = [c \in Classes |-> EmptyClassMeta]
    /\ ServicesMap = [n \in ServiceNames |-> None]
    /\ serviceLog = [s \in ServiceClasses |-> [decorated |-> 0, constructed |-> 0]]
    /\ tickQueue = <<>>
    /\ microQueue = <<>>
    /\ creates = <<>>
    /\ req = None
    /\ memoryCache = [key \in Keys |-> None]
    /\ timers = {}
    /\ now = 0
    /\ setCalls = <<>>
    /\ expired = {}

\* ------------------------------------------------------- class definitions
\* Script statements run while a pass is on the stack; every class of the
\* program is defined before ElysiaFactory.create is first called.
Scripting == running /\ exited = Alive
Declaring == Scripting /\ creates = <<>>
Defined(c) == IsSome(classMeta[c].initialize)
RoutesDeclared == Len(declared["K1"]) + Len(declared["K2"])
CurHandler == <<Val(cur).cls, Val(cur).m>>
RoutesOf(c, m) == {j \in 1..Len(declared[c]) : declared[c][j].handler = <<c, m>>}

\* `class C { constructor(...deps) }` begins: design:paramtypes is what the
\* compiler records of the constructor's parameter types.  K1 is the first
\* controller class of the script, K2 the second.
BeginClass(c, deps) ==
    /\ Declaring /\ cur = None
    /\ classMeta[c] = EmptyClassMeta
    /\ c = "K2" => Defined("K1")
    /\ cur' = Some([cls |-> c, m |-> 0, stage |-> "members"])
    /\ classMeta' = [classMeta EXCEPT ![c].paramtypes = deps]
    /\ UNCHANGED <<running, passes, exited, declared, bindings, generators,
                   handlerMeta, ServicesMap, serviceLog, tickQueue, microQueue,
                   creates, req, cacheVars>>

\* The next method of the class body; gen: it is a (async) generator function.
BeginMethod(gen) ==
    /\ Declaring /\ IsSome(cur) /\ Val(cur).stage = "members"
    /\ Val(cur).cls \in Controllers
    /\ Val(cur).m > 0 => RoutesOf(Val(cur).cls, Val(cur).m) # {}
    /\ RoutesDeclared < MaxRoutes
    /\ cur' = Some([Val(cur) EXCEPT !.m = @ + 1])
    /\ generators' = IF gen THEN generators \cup {<<Val(cur).cls, Val(cur).m + 1>>}
                     ELSE generators
    /\ UNCHANGED <<running, passes, exited, declared, bindings, handlerMeta,
                   classMeta, ServicesMap, serviceLog, tickQueue, microQueue,
                   creates, req, cacheVars>>

OnMethod ==
    /\ Declaring /\ IsSome(cur) /\ Val(cur).stage = "members"
    /\ Val(cur).cls \in Controllers /\ Val(cur).m > 0

\* Parameter decorators run before the method decorators of the same method,
\* from the last parameter to the first.
OnParameter(index) ==
    /\ OnMethod
    /\ RoutesOf(Val(cur).cls, Val(cur).m) = {}
    /\ ~handlerMeta[CurHandler].public
    /\ Len(bindings[CurHandler]) < MaxBindings
    /\ \A j \in 1..Len(bindings[CurHandler]) : bindings[CurHandler][j].index >= index

\* Reflect.defineMetadata(key, value, target[propertyKey])
Bind(hm, binding) ==
    /\ handlerMeta' = [handlerMeta EXCEPT ![CurHandler] = hm]
    /\ bindings' = [bindings EXCEPT ![CurHandler] = Append(@, binding)]
    /\ UNCHANGED <<running, passes, exited, cur, declared, generators, classMeta,
                   ServicesMap, serviceLog, tickQueue, microQueue, creates, req, cacheVars>>

RawContext(index) ==
    /\ OnParameter(index)
    /\ Bind([handlerMeta[CurHandler] EXCEPT !.rawContext = Some([index |-> index])],
            [kind |-> "rawContext", index |-> index, extra |-> "-"])

Body(schema, index) ==
    /\ OnParameter(index)
    /\ Bind([handlerMeta[CurHandler] EXCEPT
                !.body = Some([schema |-> schema, index |-> index])],
            [kind |-> "body", index |-> index, extra |-> "-"])

Param(slug, index) ==
    /\ OnParameter(index)
    /\ Bind([handlerMeta[CurHandler] EXCEPT
                !.param = Some([slug |-> slug, index |-> index])],
            [kind |-> "param", index |-> index, extra |-> slug])

Query(schema, index) ==
    /\ OnParameter(index)
    /\ Bind([handlerMeta[CurHandler] EXCEPT
                !.query = Some([schema |-> schema, index |-> index])],
            [kind |-> "query", index |-> index, extra |-> "-"])

\* createCustomParameterDecorator(handler)(target, propertyKey, parameterIndex)
CustomParameterDecorator(extractor, index) ==
    /\ OnParameter(index)
    /\ Bind([handlerMeta[CurHandler] EXCEPT
                !.customDecorators =
                    Append(@, [handler |-> extractor, index |-> index])],
            [kind |-> "custom", index |-> index, extra |-> extractor])

\* Public()(target, key, desc)
Public ==
    /\ OnMethod
    /\ ~handlerMeta[CurHandler].public
    /\ handlerMeta' = [handlerMeta EXCEPT ![CurHandler].public = TRUE]
    /\ UNCHANGED <<running, passes, exited, cur, declared, bindings, generators,
                   classMeta, ServicesMap, serviceLog, tickQueue, microQueue,
                   creates, req, cacheVars>>

\* A setter that puts the new route in front of the list.
httpMethodMetadataUnshift(metadata, hm, props) ==
    <<[path |-> NormalizePath(props.path),
       method |-> props.method,
       bodySchema |-> hm.body,
       paramSlug |-> hm.param,
       querySchema |-> hm.query,
       customDecorators |-> hm.customDecorators,
       rawContext |-> hm.rawContext,
       isPublic |-> hm.public,
       detailSchema |-> IF IsSome(props.openapi)
                        THEN Some(Val(props.openapi).detail) ELSE None,
       responseSchema |-> IF IsSome(props.openapi)
                          THEN Some(Val(props.openapi).response) ELSE None,
       handler |-> props.handler]>> \o metadata

\* What httpMethodMetadataSetter(props) leaves under the class's "metadata"
\* key, reading the handler's own metadata at the time it runs.
httpMethodMetadataSetter(metadata, hm, props) ==
    Append(metadata,
           [path |-> NormalizePath(props.path),
            method |-> props.method,
            bodySchema |-> hm.body,
            paramSlug |-> hm.param,
            querySchema |-> hm.query,
            customDecorators |-> hm.customDecorators,
            rawContext |-> hm.rawContext,
            isPublic |-> hm.public,
            detailSchema |-> IF IsSome(props.openapi)
                             THEN Some(Val(props.openapi).detail) ELSE None,
            responseSchema |-> IF IsSome(props.openapi)
                               THEN Some(Val(props.openapi).response) ELSE None,
            handler |-> props.handler])

RouteProps(method, path, openapi) ==
    [kind |-> "publish", controllerClass |-> Val(cur).cls, path |-> path,
     method |-> method, handler |-> CurHandler, openapi |-> openapi]

\* A route annotation that publishes in the declaring pass itself.
RouteAnnotationSync(method, path, openapi) ==
    /\ OnMethod
    /\ RoutesDeclared < MaxRoutes
    /\ declared' = [declared EXCEPT ![Val(cur).cls] =
                       Append(@, [method |-> method, path |-> path,
                                  handler |-> CurHandler,
                                  publicYet |-> handlerMeta[CurHandler].public,
                                  openapi |-> openapi])]
    /\ classMeta' = [classMeta EXCEPT ![Val(cur).cls].metadata =
                        httpMethodMetadataSetter(@, handlerMeta[CurHandler],
                                                 RouteProps(method, path, openapi))]
    /\ UNCHANGED <<running, passes, exited, cur, bindings, generators, handlerMeta,
                   ServicesMap, serviceLog, tickQueue, microQueue, creates, req, cacheVars>>

\* Get/Post/Put/Delete/Patch(path, openapi)(target, key, desc):
\* process.nextTick(() => httpMethodMetadataSetter({...}))
RouteAnnotation(method, path, openapi) ==
    /\ OnMethod
    /\ RoutesDeclared < MaxRoutes
    /\ declared' = [declared EXCEPT ![Val(cur).cls] =
                       Append(@, [method |-> method, path |-> path,
                                  handler |-> CurHandler,
                                  publicYet |-> handlerMeta[CurHandler].public,
                                  openapi |-> openapi])]
    /\ tickQueue' = Append(tickQueue, RouteProps(method, path, openapi))
    /\ UNCHANGED <<running, passes, exited, cur, bindings, generators, handlerMeta,
                   classMeta, ServicesMap, serviceLog, microQueue, creates, req, cacheVars>>

Get(path, openapi) == RouteAnnotation("get", path, openapi)
Post(path, openapi) == RouteAnnotation("post", path, openapi)
Put(path, openapi) == RouteAnnotation("put", path, openapi)
Delete(path, openapi) == RouteAnnotation("delete", path, openapi)
Patch(path, openapi) == RouteAnnotation("patch", path, openapi)

\* Class decorators run after every member of the class has been decorated.
OnClass(kind) ==
    /\ Declaring /\ IsSome(cur) /\ Val(cur).cls \in kind
    /\ Val(cur).m > 0 => RoutesOf(Val(cur).cls, Val(cur).m) # {}

\* ApiTag(tag)(target)
ApiTag(tag) ==
    /\ OnClass(Controllers)
    /\ classMeta[Val(cur).cls].tag = None
    /\ classMeta' = [classMeta EXCEPT ![Val(cur).cls].tag = Some(tag)]
    /\ cur' = Some([Val(cur) EXCEPT !.stage = "class"])
    /\ UNCHANGED <<running, passes, exited, declared, bindings, generators,
                   handlerMeta, ServicesMap, serviceLog, tickQueue, microQueue,
                   creates, req, cacheVars>>

\* The outermost class decorator records the initializer and completes the
\* class definition statement.
ClassDecorated(init) ==
    /\ classMeta' = [classMeta EXCEPT ![Val(cur).cls].initialize = Some(init)]
    /\ cur' = None
    /\ UNCHANGED <<running, passes, exited, declared, bindings, generators,
                   handlerMeta, ServicesMap, serviceLog, tickQueue, microQueue,
                   creates, req, cacheVars>>

\* Controller(prefix)(target): the initializer is closed over the normalized
\* prefix.
Controller(prefix) ==
    /\ OnClass(Controllers)
    /\ ClassDecorated([kind |-> "controller", prefix |-> NormalizePath(prefix),
                       given |-> prefix])

\* Module({controllers})(target)
Module(controllers) ==
    /\ Declaring /\ cur = None
    /\ classMeta[ModuleClass].controllers = None
    /\ classMeta' = [classMeta EXCEPT ![ModuleClass].controllers = Some(controllers)]
    /\ UNCHANGED <<running, passes, exited, cur, declared, bindings, generators,
                   handlerMeta, ServicesMap, serviceLog, tickQueue, microQueue,
                   creates, req, cacheVars>>

\* Socket lifecycle decorators write one record under the class's "metadata"
\* key at once, without deferral.
OnSocketMember ==
    /\ Declaring /\ IsSome(cur) /\ Val(cur).stage = "members"
    /\ Val(cur).cls \in Sockets

EmptySocketMeta == [open |-> FALSE, close |-> FALSE, message |-> FALSE, body |-> None]
SocketMeta(c) == IF IsSome(classMeta[c].socket) THEN Val(classMeta[c].socket)
                 ELSE EmptySocketMeta

SetSocketMeta(sm) ==
    /\ classMeta' = [classMeta EXCEPT ![Val(cur).cls].socket = Some(sm)]
    /\ UNCHANGED <<running, passes, exited, cur, declared, bindings, generators,
                   handlerMeta, ServicesMap, serviceLog, tickQueue, microQueue,
                   creates, req, cacheVars>>

Open ==
    /\ OnSocketMember /\ ~SocketMeta(Val(cur).cls).open
    /\ SetSocketMeta([SocketMeta(Val(cur).cls) EXCEPT !.open = TRUE])

Close ==
    /\ OnSocketMember /\ ~SocketMeta(Val(cur).cls).close
    /\ SetSocketMeta([SocketMeta(Val(cur).cls) EXCEPT !.close = TRUE])

Message(schema) ==
    /\ OnSocketMember /\ ~SocketMeta(Val(cur).cls).message
    /\ SetSocketMeta([SocketMeta(Val(cur).cls) EXCEPT !.message = TRUE, !.body = schema])

\* Websocket(path, options)(target)
Websocket(path, public) ==
    /\ OnClass(Sockets)
    /\ ClassDecorated([kind |-> "websocket", path |-> path, isPublic |-> public])

\* ------------------------------------------------------- service container
\* A Service decorator that stores without looking.
ServiceOverwrite(s) ==
    /\ Scripting /\ cur = None
    /\ serviceLog[s].decorated = 0
    /\ ServicesMap' = [ServicesMap EXCEPT ![ClassName(s)] = Some([cls |-> s, n |-> 1])]
    /\ serviceLog' = [serviceLog EXCEPT ![s] = [decorated |-> 1, constructed |-> 1]]
    /\ UNCHANGED <<running, passes, exited, cur, declared, bindings, generators, handlerMeta,
                   classMeta, tickQueue, microQueue, creates, req, cacheVars>>

\* Service()(target): `@Service() class S {}`, the one definition of class s.
\* An instance is (the class, the ordinal of its construction).
Service(s) ==
    /\ Scripting /\ cur = None
    /\ serviceLog[s].decorated = 0
    /\ IF IsSome(ServicesMap[ClassName(s)])
       THEN /\ exited' = ServiceExists
            /\ serviceLog' = [serviceLog EXCEPT ![s].decorated = 1]
            /\ UNCHANGED ServicesMap
       ELSE /\ ServicesMap' = [ServicesMap EXCEPT ![ClassName(s)] =
                                  Some([cls |-> s, n |-> serviceLog[s].constructed + 1])]
            /\ serviceLog' = [serviceLog EXCEPT ![s] =
                                  [decorated |-> 1, constructed |-> @.constructed + 1]]
            /\ UNCHANGED exited
    /\ UNCHANGED <<running, passes, cur, declared, bindings, generators, handlerMeta,
                   classMeta, tickQueue, microQueue, creates, req, cacheVars>>

\* ----------------------------------------------------------- the event loop
Quiet == tickQueue = <<>> /\ microQueue = <<>>
Looping == ~running /\ exited = Alive /\ req = None

\* The synchronous pass returns to the event loop.
EndPass ==
    /\ Scripting /\ cur = None
    /\ running' = FALSE
    /\ UNCHANGED <<passes, exited, cur, declared, bindings, generators, handlerMeta, classMeta,
                   ServicesMap, serviceLog, tickQueue, microQueue, creates, req, cacheVars>>

\* A later task (a timer, a lazily loaded file) runs more of the boot script.
StartPass ==
    /\ Looping /\ Quiet
    /\ passes < MaxPasses
    /\ \A k \in 1..Len(creates) : creates[k].pc = "done"
    /\ Len(creates) < MaxCreates
    /\ running' = TRUE
    /\ passes' = passes + 1
    /\ UNCHANGED <<exited, cur, declared, bindings, generators, handlerMeta, classMeta,
                   ServicesMap, serviceLog, tickQueue, microQueue, creates, req, cacheVars>>

\* The tick queue runs the callback a route annotation scheduled.
TickPublish ==
    /\ Looping /\ tickQueue # <<>> /\ Head(tickQueue).kind = "publish"
    /\ LET props == Head(tickQueue) IN
         classMeta' = [classMeta EXCEPT ![props.controllerClass].metadata =
                          httpMethodMetadataSetter(@, handlerMeta[props.handler], props)]
    /\ tickQueue' = Tail(tickQueue)
    /\ UNCHANGED <<running, passes, exited, cur, declared, bindings, generators, handlerMeta,
                   ServicesMap, serviceLog, microQueue, creates, req, cacheVars>>

\* nextTick(): new Promise(resolve => process.nextTick(resolve)); the tick
\* queue runs resolve, and the awaiting initializer becomes a continuation.
TickResolve ==
    /\ Looping /\ tickQueue # <<>> /\ Head(tickQueue).kind = "resolve"
    /\ microQueue' = Append(microQueue, [kind |-> "init", k |-> Head(tickQueue).k])
    /\ tickQueue' = Tail(tickQueue)
    /\ UNCHANGED <<running, passes, exited, cur, declared, bindings, generators, handlerMeta,
                   classMeta, ServicesMap, serviceLog, creates, req, cacheVars>>

\* ------------------------------------------------------------ initializers
SetCreate(k, cr) == IF k > Len(creates) THEN Append(creates, cr)
                    ELSE [creates EXCEPT ![k] = cr]

\* A resolution that fills the constructor parameters from the last to the
\* first.
ResolveServicesReversed(deps) ==
    [j \in 1..Len(deps) |-> ServicesMap[ClassName(deps[Len(deps) + 1 - j])]]

\* (Reflect.getMetadata("design:paramtypes", target) || []).map(EachService =>
\*     ServicesMap.get(EachService.name))
ResolveServices(deps) == [j \in 1..Len(deps) |-> ServicesMap[ClassName(deps[j])]]
Unwrap(opts) == [j \in 1..Len(opts) |-> Val(opts[j])]

\* A getDetail that asks for credentials whenever a hook is configured.
getDetailGuarded(md, auth) ==
    IF IsSome(md.detailSchema) THEN Val(md.detailSchema)
    ELSE IF ~auth THEN [security |-> <<>>]
    ELSE [security |-> <<"BearerAuth">>]

\* getDetail()
getDetail(md, auth) ==
    IF IsSome(md.detailSchema) THEN Val(md.detailSchema)
    ELSE IF ~auth \/ md.isPublic THEN [security |-> <<>>]
    ELSE [security |-> <<"BearerAuth">>]

\* getHandler(): which wrapper is handed to the engine
getHandler(md) ==
    [fn |-> md.handler,
     wrapper |-> IF md.handler \in generators THEN "asyncGenerator" ELSE "async"]

\* A registration that drops the post-handler of public routes as well.
RouteEntryCoupled(c, prefix, tag, md, auth, response) ==
    [target |-> c,
     method |-> md.method,
     path |-> prefix \o md.path,
     handler |-> getHandler(md),
     afterHandle |-> IF md.handler \in generators \/ md.isPublic THEN None
                     ELSE Some(IF response THEN "response" ELSE "noop"),
     beforeHandle |-> IF md.isPublic THEN None
                      ELSE Some(IF auth THEN "auth" ELSE "noop"),
     tags |-> <<tag>>,
     body |-> IF IsSome(md.bodySchema) THEN Val(md.bodySchema).schema ELSE None,
     query |-> IF IsSome(md.querySchema) THEN Val(md.querySchema).schema ELSE None,
     detail |-> getDetail(md, auth),
     response |-> md.responseSchema,
     metadata |-> md]

\* app.route(method, prefix + path, getHandler(), {...}) for one RouteMetadata
RouteEntry(c, prefix, tag, md, auth, response) ==
    [target |-> c,
     method |-> md.method,
     path |-> prefix \o md.path,
     handler |-> getHandler(md),
     afterHandle |-> IF md.handler \in generators THEN None
                     ELSE Some(IF response THEN "response" ELSE "noop"),
     beforeHandle |-> IF md.isPublic THEN None
                      ELSE Some(IF auth THEN "auth" ELSE "noop"),
     tags |-> <<tag>>,
     body |-> IF IsSome(md.bodySchema) THEN Val(md.bodySchema).schema ELSE None,
     query |-> IF IsSome(md.querySchema) THEN Val(md.querySchema).schema ELSE None,
     detail |-> getDetail(md, auth),
     response |-> md.responseSchema,
     metadata |-> md]

\* for (const eachMetadata of metadata) { ... app.route(...) }
RegisterRoutes(c, prefix, cr) ==
    LET metadata == classMeta[c].metadata
        tag == IF IsSome(classMeta[c].tag) THEN Val(classMeta[c].tag) ELSE "default"
    IN [j \in 1..Len(metadata) |->
           RouteEntry(c, prefix, tag, metadata[j], cr.auth, cr.response)]

\* An endpoint registered with the hook whatever the class declares.
SocketEntryGuarded(c, init, cr) ==
    [target |-> c,
     path |-> init.path,
     beforeHandle |-> IF cr.auth THEN Some("auth") ELSE None,
     open |-> SocketMeta(c).open,
     close |-> SocketMeta(c).close,
     message |-> SocketMeta(c).message,
     body |-> SocketMeta(c).body]

\* app.ws(path, {beforeHandle: !isPublic && options.auth, open, close, message, body})
SocketEntry(c, init, cr) ==
    [target |-> c,
     path |-> init.path,
     beforeHandle |-> IF ~init.isPublic /\ cr.auth THEN Some("auth") ELSE None,
     open |-> SocketMeta(c).open,
     close |-> SocketMeta(c).close,
     message |-> SocketMeta(c).message,
     body |-> SocketMeta(c).body]

\* An initializer body that constructs and registers with whatever the
\* container returned.
InitializerBodyUnchecked(k, cr, mq) ==
    LET c == cr.list[cr.i]
        init == Val(classMeta[c].initialize)
        services == ResolveServices(classMeta[c].paramtypes)
    IN /\ creates' = SetCreate(k,
              [cr EXCEPT
                 !.pc = "awaitInit",
                 !.built = Append(@, [cls |-> c, args |->
                              [j \in 1..Len(services) |->
                                  IF IsSome(services[j]) THEN Val(services[j])
                                  ELSE [cls |-> Undefined, n |-> 0]]]),
                 !.routes = IF init.kind = "controller"
                            THEN @ \o RegisterRoutes(c, init.prefix, cr) ELSE @,
                 !.ws = IF init.kind = "websocket"
                        THEN Append(@, SocketEntry(c, init, cr)) ELSE @])
       /\ microQueue' = Append(mq, [kind |-> "create", k |-> k])
       /\ UNCHANGED exited

\* The initializer's body after its await, in one synchronous run.
InitializerBody(k, cr, mq) ==
    LET c == cr.list[cr.i]
        init == Val(classMeta[c].initialize)
        services == ResolveServices(classMeta[c].paramtypes)
    IN IF \E j \in 1..Len(services) : ~IsSome(services[j])
       THEN /\ exited' = ServiceUndefined
            /\ UNCHANGED <<creates, microQueue>>
       ELSE /\ creates' = SetCreate(k,
                 [cr EXCEPT
                    !.pc = "awaitInit",
                    !.built = Append(@, [cls |-> c, args |-> Unwrap(services)]),
                    !.routes = IF init.kind = "controller"
                               THEN @ \o RegisterRoutes(c, init.prefix, cr) ELSE @,
                    !.ws = IF init.kind = "websocket"
                           THEN Append(@, SocketEntry(c, init, cr)) ELSE @])
            /\ microQueue' = Append(mq, [kind |-> "create", k |-> k])
            /\ UNCHANGED exited

\* An initializer that does not wait for the tick queue.
InitializerCallNoAwait(k, cr, mq) ==
    /\ InitializerBody(k, cr, mq)
    /\ UNCHANGED <<tickQueue, ServicesMap, serviceLog>>

\* initializeController(app, options) up to its `await nextTick()`.
InitializerCall(k, cr, mq) ==
    /\ creates' = SetCreate(k, [cr EXCEPT !.pc = "awaitTick"])
    /\ tickQueue' = Append(tickQueue, [kind |-> "resolve", k |-> k])
    /\ microQueue' = mq
    /\ UNCHANGED <<exited, ServicesMap, serviceLog>>

\* The initializer continues after `await nextTick()`.
InitializerResume ==
    /\ Looping /\ microQueue # <<>> /\ Head(microQueue).kind = "init"
    /\ InitializerBody(Head(microQueue).k, creates[Head(microQueue).k],
                       Tail(microQueue))
    /\ UNCHANGED <<running, passes, cur, declared, bindings, generators, handlerMeta,
                   classMeta, ServicesMap, serviceLog, tickQueue, req, cacheVars>>

\* -------------------------------------------------- ElysiaFactory.create
\* A loop that passes over a class without an initializer.
CreateLoopSkipping(k, cr, mq) ==
    LET rest == {j \in cr.i..Len(cr.list) : IsSome(classMeta[cr.list[j]].initialize)}
    IN IF rest = {}
       THEN /\ creates' = SetCreate(k, [cr EXCEPT !.pc = "done"])
            /\ microQueue' = mq
            /\ UNCHANGED <<exited, tickQueue, ServicesMap, serviceLog>>
       ELSE InitializerCall(k, [cr EXCEPT !.i = CHOOSE j \in rest : \A h \in rest : j <= h], mq)

\* for (const eachControllerClass of controllers) { ... await initializeController }
CreateLoop(k, cr, mq) ==
    IF cr.i > Len(cr.list)
    THEN /\ creates' = SetCreate(k, [cr EXCEPT !.pc = "done"])
         /\ microQueue' = mq
         /\ UNCHANGED <<exited, tickQueue, ServicesMap, serviceLog>>
    ELSE IF ~IsSome(classMeta[cr.list[cr.i]].initialize)
    THEN /\ exited' = InvalidModule
         /\ creates' = SetCreate(k, cr)
         /\ microQueue' = mq
         /\ UNCHANGED <<tickQueue, ServicesMap, serviceLog>>
    ELSE InitializerCall(k, cr, mq)

\* const controllers = Reflect.getMetadata("controllers", module)
CreateBoot(k, cr, mq) ==
    IF ~IsSome(classMeta[ModuleClass].controllers)
    THEN /\ exited' = InvalidModule
         /\ creates' = SetCreate(k, cr)
         /\ microQueue' = mq
         /\ UNCHANGED <<tickQueue, ServicesMap, serviceLog>>
    ELSE CreateLoop(k, [cr EXCEPT !.list = Val(classMeta[ModuleClass].controllers),
                                  !.i = 1], mq)

\* options.beforeStart is a list of callbacks; callback b is an async function
\* that awaits awaits[b] times before it completes.  log is the history of
\* the callbacks' starts and ends.
NewCreate(auth, response, awaits) ==
    [auth |-> auth, response |-> response, nb |-> Len(awaits), b |-> 0, pc |-> "start",
     list |-> <<>>, i |-> 1, routes |-> <<>>, ws |-> <<>>, built |-> <<>>,
     awaits |-> awaits, w |-> awaits, log |-> <<>>]

\* A loop that calls the callback and goes on without waiting for it.
RunCallbackNoAwait(k, cr, mq) ==
    /\ creates' = SetCreate(k, [cr EXCEPT !.pc = "beforeStart",
                                          !.log = Append(@, <<"start", cr.b>>)])
    /\ microQueue' = mq \o <<[kind |-> "create", k |-> k]>>
                        \o (IF cr.awaits[cr.b] = 0 THEN <<>>
                            ELSE <<[kind |-> "callback", k |-> k, b |-> cr.b]>>)

\* await eachBeforeStart(): the callback runs to its first await, or to its
\* end; create continues when the callback's promise has resolved.
RunCallback(k, cr, mq) ==
    LET started == [cr EXCEPT !.pc = "beforeStart",
                              !.log = Append(@, <<"start", cr.b>>)]
    IN IF cr.awaits[cr.b] = 0
       THEN /\ creates' = SetCreate(k, [started EXCEPT !.log = Append(@, <<"end", cr.b>>)])
            /\ microQueue' = Append(mq, [kind |-> "create", k |-> k])
       ELSE /\ creates' = SetCreate(k, started)
            /\ microQueue' = Append(mq, [kind |-> "callback", k |-> k, b |-> cr.b])

\* ElysiaFactory.create(module, options), up to its first await.
CreateWith(auth, response, awaits) ==
    /\ Scripting /\ cur = None
    /\ Len(creates) < MaxCreates
    /\ LET k == Len(creates) + 1
           cr == NewCreate(auth, response, awaits)
       IN IF cr.nb > 0
          THEN /\ RunCallback(k, [cr EXCEPT !.b = 1], microQueue)
               /\ UNCHANGED <<exited, tickQueue, ServicesMap, serviceLog>>
          ELSE CreateBoot(k, cr, microQueue)
    /\ UNCHANGED <<running, passes, cur, declared, bindings, generators, handlerMeta,
                   classMeta, req, cacheVars>>

\* create with nb callbacks that complete without awaiting.
CreateCall(auth, response, nb) == CreateWith(auth, response, [b \in 1..nb |-> 0])

\* A beforeStart callback continues after one of its awaits.
CallbackResume ==
    /\ Looping /\ microQueue # <<>> /\ Head(microQueue).kind = "callback"
    /\ LET k == Head(microQueue).k
           b == Head(microQueue).b
           cr == creates[k]
           mq == Tail(microQueue)
       IN IF cr.w[b] > 1
          THEN /\ creates' = SetCreate(k, [cr EXCEPT !.w[b] = @ - 1])
               /\ microQueue' = Append(mq, Head(microQueue))
          ELSE /\ creates' = SetCreate(k, [cr EXCEPT !.w[b] = 0,
                                                     !.log = Append(@, <<"end", b>>)])
               /\ microQueue' = Append(mq, [kind |-> "create", k |-> k])
    /\ UNCHANGED <<running, passes, exited, cur, declared, bindings, generators,
                   handlerMeta, classMeta, ServicesMap, serviceLog, tickQueue, req, cacheVars>>

\* create continues after an await: the next beforeStart callback, or the
\* controller loop.
CreateResume ==
    /\ Looping /\ microQueue # <<>> /\ Head(microQueue).kind = "create"
    /\ LET k == Head(microQueue).k
           cr == creates[k]
           mq == Tail(microQueue)
       IN IF cr.pc = "beforeStart"
          THEN IF cr.b < cr.nb
               THEN /\ RunCallback(k, [cr EXCEPT !.b = @ + 1], mq)
                    /\ UNCHANGED <<exited, tickQueue, ServicesMap, serviceLog>>
               ELSE CreateBoot(k, cr, mq)
          ELSE CreateLoop(k, [cr EXCEPT !.i = @ + 1], mq)
    /\ UNCHANGED <<running, passes, cur, declared, bindings, generators, handlerMeta,
                   classMeta, req, cacheVars>>

\* ---------------------------------------------------------------- requests
\* The engine serves one request at a time from a quiet event loop.  A
\* context carries its own identity (what RawContext hands over), a body, a
\* query and the route parameters.
Slugs == {"id", "name"}
Context == [id |-> "ctx", body |-> "the-body", query |-> "the-query",
            params |-> [id |-> "the-id", name |-> "the-name"]]
Extractors == {"X1", "X2"}
Produced == {"v1", "v2"}
Thrown == "thrown"
Returned == "returned-value"

Route(rq) == creates[rq.k].routes[rq.r]
Indices == 0..MaxIndex
NoParameters == [i \in Indices |-> None]

Request(k, r) ==
    /\ Looping /\ Quiet
    /\ k \in 1..Len(creates) /\ creates[k].pc = "done"
    /\ r \in 1..Len(creates[k].routes)
    /\ req' = Some([k |-> k, r |-> r, c |-> Context, pc |-> "beforeHandle",
                    hook |-> "not invoked", parameters |-> NoParameters, j |-> 1,
                    body |-> "not started", calls |-> 0, args |-> NoParameters,
                    produced |-> <<>>, raised |-> None, out |-> <<>>,
                    end |-> "open"])
    /\ UNCHANGED <<running, passes, exited, cur, declared, bindings, generators,
                   handlerMeta, classMeta, ServicesMap, serviceLog, tickQueue,
                   microQueue, creates, cacheVars>>

Serving(pc) == exited = Alive /\ IsSome(req) /\ Val(req).pc = pc
Serve(rq) ==
    /\ req' = Some(rq)
    /\ UNCHANGED <<running, passes, exited, cur, declared, bindings, generators,
                   handlerMeta, classMeta, ServicesMap, serviceLog, tickQueue,
                   microQueue, creates, cacheVars>>

\* The engine's dispatch: the route's pre-handler, if it has one, runs to
\* completion first; the handler follows unless the pre-handler answered or
\* threw.  Only the authentication hook can answer or throw.
EngineBeforeHandle(outcome) ==
    /\ Serving("beforeHandle")
    /\ LET rq == Val(req)
           before == Route(rq).beforeHandle
       IN IF ~IsSome(before)
          THEN outcome = "passed" /\ Serve([rq EXCEPT !.pc = "handler"])
          ELSE IF Val(before) = "noop"
          THEN outcome = "passed" /\ Serve([rq EXCEPT !.pc = "handler"])
          ELSE Serve([rq EXCEPT !.hook = outcome,
                                !.pc = IF outcome = "passed" THEN "handler" ELSE "done",
                                !.end = IF outcome = "passed" THEN "open" ELSE outcome])

\* getParameters(c), up to its first custom extractor.
BuiltinParameters(md, c) ==
    LET p0 == NoParameters
        p1 == IF IsSome(md.rawContext)
              THEN [p0 EXCEPT ![Val(md.rawContext).index] = Some(c.id)] ELSE p0
        p2 == IF IsSome(md.bodySchema)
              THEN [p1 EXCEPT ![Val(md.bodySchema).index] = Some(c.body)] ELSE p1
        p3 == IF IsSome(md.querySchema)
              THEN [p2 EXCEPT ![Val(md.querySchema).index] = Some(c.query)] ELSE p2
        p4 == IF IsSome(md.paramSlug)
              THEN [p3 EXCEPT ![Val(md.paramSlug).index] =
                       Some(IF Val(md.paramSlug).slug \in DOMAIN c.params
                            THEN c.params[Val(md.paramSlug).slug] ELSE Undefined)]
              ELSE p3
    IN p4

\* The engine calls the wrapped handler, which starts getParameters(c).
HandlerEnter ==
    /\ Serving("handler")
    /\ Serve([Val(req) EXCEPT
                 !.pc = "extract",
                 !.parameters = BuiltinParameters(Route(Val(req)).metadata, Val(req).c)])

\* What a custom extractor resolves to for a request.
Extracted(extractor) == IF extractor = "X1" THEN "from-X1" ELSE "from-X2"

\* A streaming wrapper that has no catch block.
GeneratorRethrow(rq, error) ==
    [rq EXCEPT !.raised = Some(error), !.pc = "done", !.end = "threw"]

\* catch (error) { yield error }
GeneratorCatch(rq, error) ==
    [rq EXCEPT !.raised = Some(error), !.out = Append(@, error), !.pc = "caught"]

\* A plain wrapper that catches the failure and answers with it.
RaiseConverted(rq, error) ==
    IF Route(rq).handler.wrapper = "asyncGenerator"
    THEN GeneratorCatch(rq, error)
    ELSE [rq EXCEPT !.raised = Some(error), !.out = <<error>>, !.pc = "done",
                    !.end = "returned"]

\* A failure inside the wrapped handler: the streaming wrapper catches it,
\* the plain wrapper lets it reach the engine.
Raise(rq, error) ==
    IF Route(rq).handler.wrapper = "asyncGenerator"
    THEN GeneratorCatch(rq, error)
    ELSE [rq EXCEPT !.raised = Some(error), !.pc = "done", !.end = "threw"]

\* A wrapper that awaits getParameters(c) outside every try block: an
\* extractor's rejection leaves the wrapper whatever kind the handler is.
ExtractCustomOutsideTry(ok) ==
    /\ Serving("extract")
    /\ LET rq == Val(req)
           custom == Route(rq).metadata.customDecorators
       IN /\ rq.j <= Len(custom)
          /\ IF ok
             THEN Serve([rq EXCEPT
                            !.j = @ + 1,
                            !.parameters[custom[rq.j].index] =
                                Some(Extracted(custom[rq.j].handler))])
             ELSE Serve([rq EXCEPT !.raised = Some(<<"rejected", custom[rq.j].handler>>),
                                   !.pc = "done", !.end = "threw"])

\* parameters[eachCustomDecorator.index] = await eachCustomDecorator.handler(c)
ExtractCustom(ok) ==
    /\ Serving("extract")
    /\ LET rq == Val(req)
           custom == Route(rq).metadata.customDecorators
       IN /\ rq.j <= Len(custom)
          /\ IF ok
             THEN Serve([rq EXCEPT
                            !.j = @ + 1,
                            !.parameters[custom[rq.j].index] =
                                Some(Extracted(custom[rq.j].handler))])
             ELSE Serve(Raise(rq, <<"rejected", custom[rq.j].handler>>))

\* bondedHandler(...parameters): the handler body starts with the extracted
\* arguments.  A plain handler runs to its result or throws; a generator
\* handler hands back its iterator.
InvokeHandler(ok) ==
    /\ Serving("extract")
    /\ LET rq == Val(req)
           started == [rq EXCEPT !.body = "started", !.calls = @ + 1,
                                 !.args = rq.parameters]
       IN /\ rq.j > Len(Route(rq).metadata.customDecorators)
          /\ IF Route(rq).handler.wrapper = "asyncGenerator"
             THEN ok /\ Serve([started EXCEPT !.pc = "iterate"])
             ELSE IF ok
             THEN Serve([started EXCEPT !.out = <<<<Returned>>>>, !.pc = "done",
                                        !.end = "returned"])
             ELSE Serve(Raise(started, <<Thrown>>))

\* for await (const eachValue of ...) yield eachValue: the handler's iterator
\* produces its next value and the wrapper hands it on.
IterateYield(v) ==
    /\ Serving("iterate")
    /\ Len(Val(req).produced) < MaxYield
    /\ Serve([Val(req) EXCEPT !.produced = Append(@, <<v>>), !.out = Append(@, <<v>>)])

\* The handler's iteration raises.
IterateThrow ==
    /\ Serving("iterate")
    /\ Serve(Raise(Val(req), <<Thrown>>))

\* The handler's iteration ends; so does the wrapper's.
IterateReturn ==
    /\ Serving("iterate")
    /\ Serve([Val(req) EXCEPT !.pc = "done", !.end = "returned"])

\* The caller asks for the unit after the forwarded error: the catch block
\* is left and the wrapper ends.
AfterCatch ==
    /\ Serving("caught")
    /\ Serve([Val(req) EXCEPT !.pc = "done", !.end = "returned"])

\* The response is sent; the engine is free for the next request.
RequestEnd ==
    /\ Serving("done")
    /\ req' = None
    /\ UNCHANGED <<running, passes, exited, cur, declared, bindings, generators,
                   handlerMeta, classMeta, ServicesMap, serviceLog, tickQueue,
                   microQueue, creates, cacheVars>>

\* ---------------------------------------------------------- socket upgrades
\* The engine's dispatch of an upgrade request to a socket endpoint: the
\* endpoint's pre-handler, if it has one, runs first; the connection is
\* opened, and the open hook called, unless the pre-handler answered or threw.
Endpoint(rq) == creates[rq.k].ws[rq.w]

SocketConnect(k, w) ==
    /\ Looping /\ Quiet
    /\ k \in 1..Len(creates) /\ creates[k].pc = "done"
    /\ w \in 1..Len(creates[k].ws)
    /\ req' = Some([k |-> k, w |-> w, pc |-> "upgrade", hook |-> "not invoked",
                    open |-> "not invoked", end |-> "open"])
    /\ UNCHANGED <<running, passes, exited, cur, declared, bindings, generators,
                   handlerMeta, classMeta, ServicesMap, serviceLog, tickQueue,
                   microQueue, creates, cacheVars>>

SocketBeforeHandle(outcome) ==
    /\ Serving("upgrade")
    /\ LET rq == Val(req)
       IN IF ~IsSome(Endpoint(rq).beforeHandle)
          THEN outcome = "passed" /\ Serve([rq EXCEPT !.pc = "open"])
          ELSE Serve([rq EXCEPT !.hook = outcome,
                                !.pc = IF outcome = "passed" THEN "open" ELSE "done",
                                !.end = IF outcome = "passed" THEN "open" ELSE outcome])

SocketOpen ==
    /\ Serving("open")
    /\ Serve([Val(req) EXCEPT !.open = IF Endpoint(Val(req)).open THEN "invoked" ELSE @,
                              !.pc = "done", !.end = "connected"])

\* -------------------------------------------------- the authentication hook
\* onHandleAuthentication(roles) of the library's auth module.  An
\* Authorization header is a string, here the sequence of its parts, of which
\* Bearer is the literal "Bearer "; the jwt verifier is the application's.
UNAUTHORIZED_MESSAGE == [message |-> "Unauthorized", success |-> FALSE]
FORBIDDEN_MESSAGE == [message |-> "Forbidden", success |-> FALSE]
Bearer == "Bearer "
Tokens == {"xyz", "admin-token", "user-token", "plain-token"}
HeaderValues == {<<>>, <<"xyz">>, <<Bearer, "admin-token", Bearer, "xyz">>}
                   \cup {<<Bearer, t>> : t \in Tokens}
Headers == {None} \cup {Some(h) : h \in HeaderValues}
RoleSets == {None, Some({}), Some({"admin"}), Some({"admin", "user"})}

\* jwt.verify(token): the payload of a token it accepts, else false.
Verify(token) ==
    IF token = Some(<<"admin-token">>) THEN Some([role |-> "admin"])
    ELSE IF token = Some(<<"user-token">>) THEN Some([role |-> "user"])
    ELSE IF token = Some(<<"plain-token">>) THEN Some([role |-> Undefined])
    ELSE None

\* token.split("Bearer ")
RECURSIVE Split(_)
Split(h) ==
    IF h = <<>> THEN <<<<>>>>
    ELSE IF Head(h) = Bearer THEN <<<<>>>> \o Split(Tail(h))
    ELSE LET rest == Split(Tail(h))
         IN <<<<Head(h)>> \o Head(rest)>> \o Tail(rest)

\* array[i], undefined beyond the end
At(array, i) == IF i + 1 <= Len(array) THEN Some(array[i + 1]) ELSE None

\* A context the jwt plugin has decorated with its verifier.
JwtContext(header) ==
    [id |-> "ctx", body |-> "the-body", query |-> "the-query",
     params |-> [id |-> "the-id", name |-> "the-name"],
     jwt |-> "verify", authorization |-> header]
\* A context of an application without the jwt plugin.
PlainContext(header) ==
    [id |-> "ctx", body |-> "the-body", query |-> "the-query",
     params |-> [id |-> "the-id", name |-> "the-name"],
     authorization |-> header]

\* A request to an application whose authentication hook is
\* onHandleAuthentication(roles).
AuthRequest(k, r, roles, c) ==
    /\ Looping /\ Quiet
    /\ k \in 1..Len(creates) /\ creates[k].pc = "done"
    /\ r \in 1..Len(creates[k].routes)
    /\ req' = Some([k |-> k, r |-> r, c |-> c, pc |-> "beforeHandle",
                    hook |-> "not invoked", parameters |-> NoParameters, j |-> 1,
                    body |-> "not started", calls |-> 0, args |-> NoParameters,
                    produced |-> <<>>, raised |-> None, out |-> <<>>,
                    end |-> "open", roles |-> roles, status |-> 200,
                    answer |-> None, user |-> None])
    /\ UNCHANGED <<running, passes, exited, cur, declared, bindings, generators,
                   handlerMeta, classMeta, ServicesMap, serviceLog, tickQueue,
                   microQueue, creates, cacheVars>>

\* A hook that lets the request through where the library answers 401.
UnauthorizedIgnored(rq) == [rq EXCEPT !.hook = "passed", !.pc = "handler"]

\* c.set.status = 401; return UNAUTHORIZED_MESSAGE
Unauthorized(rq) ==
    [rq EXCEPT !.status = 401, !.answer = Some(UNAUTHORIZED_MESSAGE),
               !.hook = "answered", !.pc = "done", !.end = "answered"]

\* c.set.status = 403; throw FORBIDDEN_MESSAGE
Forbidden(rq) ==
    [rq EXCEPT !.status = 403, !.answer = Some(FORBIDDEN_MESSAGE),
               !.hook = "threw", !.pc = "done", !.end = "threw"]

\* The hook, up to `await jwt.verify(...)`.
onHandleAuthentication ==
    /\ Serving("beforeHandle")
    /\ Route(Val(req)).beforeHandle = Some("auth")
    /\ LET rq == Val(req)
           token == rq.c.authorization
       IN IF "jwt" \notin DOMAIN rq.c
          THEN Serve([rq EXCEPT !.hook = "passed", !.pc = "handler"])
          ELSE IF ~IsSome(token) \/ Val(token) = <<>>
          THEN Serve(Unauthorized(rq))
          ELSE Serve([rq EXCEPT !.hook = "verifying", !.pc = "verify"])

\* The hook after `await jwt.verify(token.split("Bearer ")[1])`.
VerifyResume ==
    /\ Serving("verify")
    /\ LET rq == Val(req)
           jwtVerifyResult == Verify(At(Split(Val(rq.c.authorization)), 1))
           verified == [rq EXCEPT !.user = jwtVerifyResult]
       IN IF ~IsSome(jwtVerifyResult)
          THEN Serve(Unauthorized(rq))
          ELSE IF IsSome(rq.roles)
                  /\ ~(\E role \in Val(rq.roles) : Val(jwtVerifyResult).role = role)
          THEN Serve(Forbidden(verified))
          ELSE Serve([verified EXCEPT !.hook = "passed", !.pc = "handler"])


\* ------------------------------------------------------- the cache provider
\* CacheProvider in its in-memory mode (no REDIS_URL): get, set and del run
\* to their end without awaiting; a timer callback runs when its delay has
\* passed, timers of one due time in the order they were started.
ValueOf(call) == <<"value", call>>
Stringify(value) == <<"json">> \o value

get(key) == memoryCache[key]

\* set(key, value, ttlSeconds): the value of the n-th call is ValueOf(n).
set(key, ttlSeconds) ==
    /\ exited = Alive
    /\ Len(setCalls) < MaxSets
    /\ LET call == Len(setCalls) + 1
       IN /\ memoryCache' = [memoryCache EXCEPT ![key] = Some(Stringify(ValueOf(call)))]
          /\ timers' = IF ttlSeconds > 0
                       THEN timers \cup {[id |-> call, key |-> key, due |-> now + ttlSeconds]}
                       ELSE timers
          /\ setCalls' = Append(setCalls, [key |-> key, ttl |-> ttlSeconds, at |-> now])
    /\ UNCHANGED <<running, passes, exited, cur, declared, bindings, generators,
                   handlerMeta, classMeta, ServicesMap, serviceLog, tickQueue,
                   microQueue, creates, req, now, expired>>

\* del(key)
del(key) ==
    /\ exited = Alive
    /\ memoryCache' = [memoryCache EXCEPT ![key] = None]
    /\ UNCHANGED <<running, passes, exited, cur, declared, bindings, generators,
                   handlerMeta, classMeta, ServicesMap, serviceLog, tickQueue,
                   microQueue, creates, req, timers, now, setCalls, expired>>

\* The set call that wrote the entry the cache holds for key.
WrittenBy(key) ==
    CHOOSE call \in 1..Len(setCalls) :
       /\ setCalls[call].key = key
       /\ \A later \in (call + 1)..Len(setCalls) : setCalls[later].key # key

Due(t) == t.due <= now
First(t) == \A u \in timers : u.due > t.due \/ (u.due = t.due /\ u.id >= t.id)

\* () => this.memoryCache.delete(key), the callback of the timer a set started
TimerFire(t) ==
    /\ exited = Alive
    /\ t \in timers /\ Due(t) /\ First(t)
    /\ timers' = timers \ {t}
    /\ memoryCache' = [memoryCache EXCEPT ![t.key] = None]
    /\ expired' = IF IsSome(get(t.key))
                  THEN expired \cup {[key |-> t.key, timer |-> t.id,
                                      by |-> WrittenBy(t.key), at |-> now]}
                  ELSE expired
    /\ UNCHANGED <<running, passes, exited, cur, declared, bindings, generators,
                   handlerMeta, classMeta, ServicesMap, serviceLog, tickQueue,
                   microQueue, creates, req, now, setCalls>>

\* A second passes; the timers that were due have run.
Elapse ==
    /\ exited = Alive
    /\ now < MaxTime
    /\ \A t \in timers : ~Due(t)
    /\ now' = now + 1
    /\ UNCHANGED <<running, passes, exited, cur, declared, bindings, generators,
                   handlerMeta, classMeta, ServicesMap, serviceLog, tickQueue,
                   microQueue, creates, req, memoryCache, timers, setCalls, expired>>

\* ------------------------------------------------------------------ claims
\* What the claims speak of.
Apps == 1..Len(creates)
Runs(k, c) == {j \in 1..Len(creates[k].built) : creates[k].built[j].cls = c}
IsFor(c, e) == e.target = c
RegistrationsOf(k, c) == SelectSeq(creates[k].routes, LAMBDA e : IsFor(c, e))
Pending(c) == {j \in 1..Len(tickQueue) :
                  /\ tickQueue[j].kind = "publish"
                  /\ tickQueue[j].controllerClass = c}
WithSlash(p) == IF Len(p) > 0 /\ p[1] = "/" THEN p ELSE <<"/">> \o p
Nth(c, j) == declared[c][((j - 1) % Len(declared[c])) + 1]

\* C1: a controller with N route annotations has, for each run of its
\* initializer, exactly N registrations in that run's engine, and the path of
\* each is the class's prefix followed by the route's path, both made to
\* begin with "/".
C1_RegistrationsPerController ==
    \A k \in Apps : \A c \in Controllers :
        LET regs == RegistrationsOf(k, c) IN
        /\ Len(regs) = Cardinality(Runs(k, c)) * Len(declared[c])
        /\ \A j \in 1..Len(regs) :
              regs[j].path = WithSlash(Val(classMeta[c].initialize).given)
                                \o WithSlash(Nth(c, j).path)

\* C1 witness: an initializer has registered two routes, one of them declared
\* with a path and a prefix that both lack the leading "/".
C1_Witness ==
    \E k \in Apps : \E c \in Controllers :
        /\ Cardinality(Runs(k, c)) = 1
        /\ Len(declared[c]) = 2
        /\ Val(classMeta[c].initialize).given = <<"p">>
        /\ declared[c][1].path = <<"a">>
        /\ RegistrationsOf(k, c)[1].path = <<"/", "p", "/", "a">>

\* C2: within one controller the i-th registration of an initializer run
\* carries the method and the path of the i-th route annotation, and the
\* handlers appear in the order the class declares them.
C2_DeclaredOrder ==
    \A k \in Apps : \A c \in Controllers :
        LET regs == RegistrationsOf(k, c) IN
        \A j \in 1..Len(regs) :
            /\ Len(declared[c]) > 0
            /\ regs[j].method = Nth(c, j).method
            /\ regs[j].handler.fn = Nth(c, j).handler
            /\ regs[j].path = WithSlash(Val(classMeta[c].initialize).given)
                                 \o WithSlash(Nth(c, j).path)
            /\ (j < Len(regs) /\ j % Len(declared[c]) # 0)
                  => regs[j].handler.fn[2] <= regs[j + 1].handler.fn[2]

\* C2 witness: GET a then POST /b on two handlers of one controller are
\* registered as get prefix+/a, then post prefix+/b.
C2_Witness ==
    \E k \in Apps : \E c \in Controllers :
        LET regs == RegistrationsOf(k, c) IN
        /\ Len(regs) = 2
        /\ declared[c][1].handler # declared[c][2].handler
        /\ regs[1].method = "get" /\ regs[1].path = <<"/", "p", "/", "a">>
        /\ regs[2].method = "post" /\ regs[2].path = <<"/", "p", "/", "b">>

\* C3: once an initializer of a class has read the class's route metadata,
\* no publication of that class is still waiting in the tick queue: every
\* deferred publication ran before the read.
C3_PublishedBeforeRead ==
    \A k \in Apps : \A c \in Controllers :
        Runs(k, c) # {} => Pending(c) = {}

\* C3 witness: create was called in the pass that declared the classes, with
\* no beforeStart callback, and an initializer has read a class with routes.
C3_Witness ==
    \E k \in Apps : \E c \in Controllers :
        /\ passes = 1 /\ creates[k].nb = 0
        /\ Runs(k, c) # {}
        /\ Len(declared[c]) = 2
        /\ Len(RegistrationsOf(k, c)) = 2

\* C4 as stated: once the class annotation has run, every route declared on
\* the class is in the registry.
C4_PublishedBeforeClassAnnotation ==
    \A c \in Controllers :
        (IsSome(classMeta[c].tag) \/ Defined(c))
            => Len(classMeta[c].metadata) = Len(declared[c])

\* C4 amended: a declared route is either in the registry or still waiting in
\* the tick queue, in declaration order; while the class is being defined,
\* its class annotations included, and for the rest of that pass, all of them
\* are still waiting.
C4_PublishedAfterDeclaringPass ==
    \A c \in Controllers :
        LET published == classMeta[c].metadata IN
        /\ Len(published) + Cardinality(Pending(c)) = Len(declared[c])
        /\ \A j \in 1..Len(published) :
              /\ published[j].handler = declared[c][j].handler
              /\ published[j].method = declared[c][j].method
        /\ (running /\ passes = 1) => published = <<>>
        /\ (IsSome(cur) /\ Val(cur).cls = c) => published = <<>>

\* C4 witness: the class annotation has run and the routes of the class are
\* all still waiting in the tick queue.
C4_Witness ==
    \E c \in Controllers :
        /\ Defined(c) /\ IsSome(classMeta[c].tag)
        /\ Len(declared[c]) = 2
        /\ Cardinality(Pending(c)) = 2

\* C5: serving a request, the authentication hook is never invoked for a
\* route whose method carries Public; for any other route of an application
\* with an authentication hook it is invoked once the pre-handler stage is
\* over and has passed before the handler body starts.
C5_PublicSkipsAuthentication ==
    IsSome(req) =>
        LET rq == Val(req)
            isPublic == handlerMeta[Route(rq).handler.fn].public
        IN /\ isPublic => rq.hook = "not invoked"
           /\ (~isPublic /\ creates[rq.k].auth) =>
                 /\ rq.pc # "beforeHandle" => rq.hook # "not invoked"
                 /\ rq.body = "started" => rq.hook = "passed"

\* C5 witness: the body of a handler runs without the hook, its Public having
\* been evaluated after its route annotation, in an application with a hook.
C5_Witness ==
    /\ IsSome(req)
    /\ Val(req).body = "started" /\ Val(req).hook = "not invoked"
    /\ creates[Val(req).k].auth
    /\ \E c \in Controllers : \E j \in 1..Len(declared[c]) :
          /\ declared[c][j].handler = Route(Val(req)).handler.fn
          /\ ~declared[c][j].publicYet

Injected == Controllers \cup Sockets
SameToken(name) == {s \in ServiceClasses : ClassName(s) = name}
DecoratedAs(name) == {s \in SameToken(name) : serviceLog[s].decorated > 0}
ConstructedAs(name) == {s \in SameToken(name) : serviceLog[s].constructed > 0}
DependenciesOf(c) == classMeta[c].paramtypes
Missing(c) == \E x \in 1..Len(DependenciesOf(c)) :
                 ServicesMap[ClassName(DependenciesOf(c)[x])] = None
SocketsOf(k, c) == SelectSeq(creates[k].ws, LAMBDA e : IsFor(c, e))
Completed(cr) == IF cr.pc = "awaitInit" THEN cr.i ELSE cr.i - 1

C9_SingletonByClass ==
    \A k \in Apps : \A j \in 1..Len(creates[k].built) :
        LET c == creates[k].built[j].cls
            args == creates[k].built[j].args
        IN \A x \in 1..Len(args) :
              LET S == DependenciesOf(c)[x]
              IN serviceLog[S].constructed > 0 =>
                    /\ serviceLog[S].constructed = 1
                    /\ args[x] = [cls |-> S, n |-> 1]

\* C9 witness: a controller and a socket class that both depend on Store
\* were constructed with the same Store instance, the controller also with
\* the Mailer instance, a second class named Store existing undeclared.
C9_Witness ==
    \E k \in Apps :
        /\ creates[k].pc = "done"
        /\ Cardinality(Runs(k, "K1")) = 1 /\ Cardinality(Runs(k, "W1")) = 1
        /\ serviceLog["Store2"].decorated = 0
        /\ DependenciesOf("K1") = <<"Mailer", "Store">>
        /\ DependenciesOf("W1") = <<"Store">>
        /\ \A j \in Runs(k, "K1") :
              creates[k].built[j].args =
                 <<[cls |-> "Mailer", n |-> 1], [cls |-> "Store", n |-> 1]>>
        /\ \A j \in Runs(k, "W1") :
              creates[k].built[j].args = <<[cls |-> "Store", n |-> 1]>>

\* The source a parameter decorator names, read from a request context.
SourceValue(binding, c) ==
    CASE binding.kind = "rawContext" -> c.id
      [] binding.kind = "body" -> c.body
      [] binding.kind = "query" -> c.query
      [] binding.kind = "param" -> c.params[binding.extra]
      [] binding.kind = "custom" -> Extracted(binding.extra)
BoundAt(h, i) == {j \in 1..Len(bindings[h]) : bindings[h][j].index = i}

\* C6 as stated: when the handler body starts, its argument list holds, at
\* the index of every parameter binding declared on the handler (the indices
\* being distinct), the value of that binding's source, and is unset at every
\* other index.
C6_IndexPreserving ==
    (IsSome(req) /\ Val(req).body = "started") =>
        LET rq == Val(req)
            h == Route(rq).handler.fn
        IN (\A i \in Indices : Cardinality(BoundAt(h, i)) <= 1) =>
              \A i \in Indices :
                 IF BoundAt(h, i) = {} THEN rq.args[i] = None
                 ELSE \A j \in BoundAt(h, i) :
                         rq.args[i] = Some(SourceValue(bindings[h][j], rq.c))

\* C10: once the iteration of a streaming handler has raised after producing
\* k values, the wrapper has delivered those k values in order and then the
\* thrown value, k + 1 units in all, and when it ends it ends normally with
\* nothing more delivered.
C10_StreamErrorInBand ==
    (/\ IsSome(req)
     /\ Route(Val(req)).handler.wrapper = "asyncGenerator"
     /\ Val(req).body = "started") =>
        LET rq == Val(req) IN
        /\ ~IsSome(rq.raised) => rq.out = rq.produced
        /\ IsSome(rq.raised) =>
              /\ rq.pc \in {"caught", "done"}
              /\ rq.out = Append(rq.produced, Val(rq.raised))
              /\ Len(rq.out) = Len(rq.produced) + 1
              /\ rq.pc = "done" => rq.end = "returned"

\* C10 witness: the handler produced one value and raised on the second; the
\* wrapper delivered the value, then the error, and ended normally.
C10_Witness ==
    /\ IsSome(req)
    /\ Val(req).pc = "done" /\ Val(req).end = "returned"
    /\ Val(req).produced = <<<<"v1">>>>
    /\ Val(req).raised = Some(<<Thrown>>)
    /\ Val(req).out = <<<<"v1">>, <<Thrown>>>>

\* The bearer token of a request: what follows "Bearer " in its header.
BearerToken(c) ==
    IF IsSome(c.authorization) /\ Len(Val(c.authorization)) = 2
       /\ Val(c.authorization)[1] = Bearer
    THEN Some(<<Val(c.authorization)[2]>>) ELSE None
HookDone(rq) == rq.hook \notin {"not invoked", "verifying"}

\* C11: on a context with a jwt verifier, when the hook has finished for a
\* request without Authorization header, or with a bearer token the verifier
\* rejects, it has returned {success: false, message: "Unauthorized"} with
\* status 401; for a token the verifier accepts whose role is not among the
\* required roles it has thrown the forbidden message with status 403; in
\* both cases the handler body does not start.
C11_UnauthorizedAndForbidden ==
    (IsSome(req) /\ "roles" \in DOMAIN Val(req) /\ "jwt" \in DOMAIN Val(req).c
       /\ HookDone(Val(req))) =>
        LET rq == Val(req)
            token == BearerToken(rq.c)
        IN /\ (~IsSome(rq.c.authorization) \/ (IsSome(token) /\ ~IsSome(Verify(token)))) =>
                 /\ rq.hook = "answered"
                 /\ rq.answer = Some([success |-> FALSE, message |-> "Unauthorized"])
                 /\ rq.status = 401
                 /\ rq.body = "not started"
           /\ (IsSome(token) /\ IsSome(Verify(token)) /\ IsSome(rq.roles)
                 /\ Val(Verify(token)).role \notin Val(rq.roles)) =>
                 /\ rq.hook = "threw"
                 /\ rq.answer = Some([success |-> FALSE, message |-> "Forbidden"])
                 /\ rq.status = 403
                 /\ rq.body = "not started"

\* C11 witness: `Authorization: Bearer xyz`, which the verifier rejects, was
\* answered with the unauthorized message and status 401.
C11_Witness ==
    /\ IsSome(req) /\ "roles" \in DOMAIN Val(req)
    /\ Val(req).c = JwtContext(Some(<<Bearer, "xyz">>))
    /\ Val(req).hook = "answered" /\ Val(req).status = 401
    /\ Val(req).answer = Some(UNAUTHORIZED_MESSAGE)

\* ------------------------------------------------------------------- C12
\* The history a create call with nb callbacks writes when each callback ends
\* before the next one starts.
RECURSIVE OneAtATime(_)
OneAtATime(nb) == IF nb = 0 THEN <<>>
                  ELSE OneAtATime(nb - 1) \o <<<<"start", nb>>, <<"end", nb>>>>
IsPrefix(s, t) == Len(s) <= Len(t) /\ \A j \in 1..Len(s) : s[j] = t[j]
InitializerInvoked(cr) == cr.pc \in {"awaitTick", "awaitInit"} \/ cr.i > 1

\* C12: the beforeStart callbacks of one create call run in list order, one
\* at a time: a callback starts only when the one before it has ended, with
\* all it awaits; and no initializer is invoked before the last callback has
\* ended.
C12_BeforeStartSequential ==
    \A k \in Apps :
        LET cr == creates[k]
        IN /\ IsPrefix(cr.log, OneAtATime(cr.nb))
           /\ InitializerInvoked(cr) => cr.log = OneAtATime(cr.nb)

\* A create call with two callbacks, the first of which awaited, has invoked
\* an initializer.
C12_Witness ==
    \E k \in Apps :
        /\ creates[k].nb = 2
        /\ creates[k].awaits[1] > 0
        /\ InitializerInvoked(creates[k])

\* ------------------------------------------------------------------- C13
ModuleValid ==
    /\ IsSome(classMeta[ModuleClass].controllers)
    /\ \A j \in 1..Len(Val(classMeta[ModuleClass].controllers)) :
           Defined(Val(classMeta[ModuleClass].controllers)[j])
Settled == ~running /\ Quiet /\ creates # <<>>

\* C13: a create call whose root class has no controllers metadata, or lists
\* a class without an initializer, never returns an application, and when it
\* has run as far as it can the process has been terminated.
C13_InvalidModuleFatal ==
    ~ModuleValid =>
        /\ \A k \in Apps : creates[k].pc # "done"
        /\ Settled => exited = InvalidModule

\* The process was terminated at a plain class that the module lists after a
\* controller, which had been initialized.
C13_Witness ==
    /\ exited = InvalidModule
    /\ \E k \in Apps :
           /\ creates[k].i = 2 /\ Len(creates[k].list) >= 2
           /\ creates[k].list[2] \in PlainClasses
           /\ Len(creates[k].built) = 1

\* ------------------------------------------------------------------- C14
Rejection(rq) ==
    LET custom == Route(rq).metadata.customDecorators
    IN IF rq.j <= Len(custom) THEN <<"rejected", custom[rq.j].handler>> ELSE <<"rejected">>

\* C14: the wrapper of a plain handler calls the handler body at most once
\* per request; when it returns, the body ran once with the value of every
\* custom extractor at its index and the wrapper returns the body's result;
\* when the body or an extractor raises, the wrapper ends with that error and
\* answers nothing, and after an extractor's failure the body has not run.
C14_PlainWrapper ==
    (IsSome(req) /\ Route(Val(req)).handler.wrapper = "async") =>
        LET rq == Val(req)
            custom == Route(rq).metadata.customDecorators
        IN /\ rq.calls <= 1
           /\ rq.end = "returned" =>
                 /\ rq.calls = 1 /\ rq.raised = None
                 /\ rq.out = <<<<Returned>>>>
                 /\ \A j \in 1..Len(custom) :
                        rq.args[custom[j].index] = Some(Extracted(custom[j].handler))
           /\ IsSome(rq.raised) =>
                 /\ rq.end = "threw" /\ rq.out = <<>>
                 /\ \/ Val(rq.raised) = <<Thrown>> /\ rq.calls = 1
                    \/ /\ Val(rq.raised) = Rejection(rq)
                       /\ rq.calls = 0 /\ rq.body = "not started"
           /\ rq.end = "threw" => IsSome(rq.raised)

\* The second extractor of a plain handler failed after the first had
\* produced its value.
C14_Witness ==
    /\ IsSome(req)
    /\ Route(Val(req)).handler.wrapper = "async"
    /\ Val(req).end = "threw" /\ Val(req).j = 2
    /\ Val(req).raised = Some(Rejection(Val(req)))

\* ------------------------------------------------------------------- C15
DeclaredPublic(c) == Val(classMeta[c].initialize).isPublic

\* C15: the endpoint of a socket class that was not declared public is
\* registered with the configured authentication hook as its pre-handler, and
\* its open hook is called only when that hook has passed the request; the
\* endpoint of a class declared public has no pre-handler and the
\* authentication hook is never invoked for it.
C15_SocketAuthentication ==
    /\ \A k \in Apps : \A j \in 1..Len(creates[k].ws) :
           LET e == creates[k].ws[j]
           IN /\ (~DeclaredPublic(e.target) /\ creates[k].auth) => e.beforeHandle = Some("auth")
              /\ DeclaredPublic(e.target) => e.beforeHandle = None
    /\ (IsSome(req) /\ "w" \in DOMAIN Val(req)) =>
           LET rq == Val(req)
               public == DeclaredPublic(Endpoint(rq).target)
           IN /\ public => rq.hook = "not invoked"
              /\ (~public /\ creates[rq.k].auth /\ rq.pc \in {"open", "done"}) =>
                     rq.hook # "not invoked"
              /\ (~public /\ creates[rq.k].auth /\ rq.open = "invoked") =>
                     rq.hook = "passed"

\* A connection to a public endpoint of an application with an
\* authentication hook was opened.
C15_Witness ==
    /\ IsSome(req) /\ "w" \in DOMAIN Val(req)
    /\ DeclaredPublic(Endpoint(Val(req)).target)
    /\ creates[Val(req).k].auth
    /\ Val(req).open = "invoked"

\* ------------------------------------------------------------------- C16
\* The published RouteMetadata md carries the binding a parameter annotation
\* declared.
Carries(md, binding) ==
    CASE binding.kind = "rawContext" -> md.rawContext = Some([index |-> binding.index])
      [] binding.kind = "body" ->
            IsSome(md.bodySchema) /\ Val(md.bodySchema).index = binding.index
      [] binding.kind = "query" ->
            IsSome(md.querySchema) /\ Val(md.querySchema).index = binding.index
      [] binding.kind = "param" ->
            md.paramSlug = Some([slug |-> binding.extra, index |-> binding.index])
      [] binding.kind = "custom" ->
            \E j \in 1..Len(md.customDecorators) :
               md.customDecorators[j] = [handler |-> binding.extra, index |-> binding.index]
Published(c) == classMeta[c].metadata
OnePerKind(h) ==
    \A i, j \in 1..Len(bindings[h]) :
       (i # j /\ bindings[h][i].kind = bindings[h][j].kind) => bindings[h][i].kind = "custom"

\* C16 as stated: when a route of a class is published, the definition of
\* the class with all its annotations is over, and every published
\* RouteMetadata carries every binding declared on its handler and the
\* handler's public flag.
C16_CompleteWhenPublished ==
    \A c \in Controllers : \A j \in 1..Len(Published(c)) :
       LET md == Published(c)[j]
           h == md.handler
       IN /\ ~(IsSome(cur) /\ Val(cur).cls = c)
          /\ md.isPublic = handlerMeta[h].public
          /\ \A b \in 1..Len(bindings[h]) : Carries(md, bindings[h][b])

\* ------------------------------------------------------------ C17 and C18
\* The hook a registration carries for a configured option: the option, or
\* the no-op the initializer puts in its place.
HookOr(configured, hook) == Some(IF configured THEN hook ELSE "noop")
Streams(d) == d.handler \in generators
IsPublic(d) == handlerMeta[d.handler].public
BearerRequired == [security |-> <<"BearerAuth">>]
OpenAccess == [security |-> <<>>]

\* C17: a registration has no post-handler when its handler is a generator
\* function and the response hook of the create call otherwise; it has no
\* pre-handler when its method carries Public and the authentication hook of
\* the create call otherwise; each choice whatever the other is.
C17_HooksPerRoute ==
    \A k \in Apps : \A c \in Controllers : \A j \in 1..Len(RegistrationsOf(k, c)) :
       LET e == RegistrationsOf(k, c)[j]
           d == Nth(c, j)
       IN /\ e.afterHandle = IF Streams(d) THEN None
                             ELSE HookOr(creates[k].response, "response")
          /\ e.beforeHandle = IF IsPublic(d) THEN None
                              ELSE HookOr(creates[k].auth, "auth")

\* One application with both hooks has a public plain route, registered
\* with the response hook only, and a streaming route that is not public,
\* registered with the authentication hook only.
C17_Witness ==
    \E k \in Apps :
       /\ creates[k].auth /\ creates[k].response
       /\ \E i, j \in 1..Len(creates[k].routes) :
             /\ creates[k].routes[i].beforeHandle = None
             /\ creates[k].routes[i].afterHandle = Some("response")
             /\ creates[k].routes[j].beforeHandle = Some("auth")
             /\ creates[k].routes[j].afterHandle = None

\* C18: the detail of a registration is the detail of the route annotation's
\* openapi argument when it has one; otherwise it requires bearer credentials
\* when the create call has an authentication hook and the method does not
\* carry Public, and is open when not; so without an override it requires
\* bearer credentials exactly when the pre-handler is the authentication hook.
C18_AuthorizationDetail ==
    \A k \in Apps : \A c \in Controllers : \A j \in 1..Len(RegistrationsOf(k, c)) :
       LET e == RegistrationsOf(k, c)[j]
           d == Nth(c, j)
       IN IF IsSome(d.openapi)
          THEN e.detail = Val(d.openapi).detail
          ELSE /\ e.detail = IF creates[k].auth /\ ~IsPublic(d) THEN BearerRequired
                             ELSE OpenAccess
               /\ e.detail = BearerRequired <=> e.beforeHandle = Some("auth")

\* One application with an authentication hook has a public route whose
\* detail is open and a route that is not public whose detail requires
\* bearer credentials, neither with an override.
C18_Witness ==
    \E k \in Apps : \E c \in Controllers :
       \E i, j \in 1..Len(RegistrationsOf(k, c)) :
          /\ creates[k].auth
          /\ ~IsSome(Nth(c, i).openapi) /\ ~IsSome(Nth(c, j).openapi)
          /\ IsPublic(Nth(c, i)) /\ RegistrationsOf(k, c)[i].detail = OpenAccess
          /\ ~IsPublic(Nth(c, j)) /\ RegistrationsOf(k, c)[j].detail = BearerRequired

\* ------------------------------------------------------------------- C19
\* C19 as stated: when the handler body starts, every parameter binding
\* declared on the handler, the indices being distinct, is in the published
\* RouteMetadata of the route and the argument at its index is the value of
\* its source, for built-in kinds as for custom extractors.
C19_EveryBindingFilled ==
    (IsSome(req) /\ Val(req).body = "started") =>
        LET rq == Val(req)
            h == Route(rq).handler.fn
        IN \A b \in 1..Len(bindings[h]) :
              /\ Carries(Route(rq).metadata, bindings[h][b])
              /\ rq.args[bindings[h][b].index] = Some(SourceValue(bindings[h][b], rq.c))

\* ------------------------------------------------------------------- C20
\* C20 as stated: in the in-memory mode a timer removes only the entry that
\* the set call which started it wrote, at the end of that call's ttl; so an
\* entry written by a later set of the key, and an entry written with
\* ttl <= 0, is never removed by a timer.
C20_OnlyOwnExpiry ==
    \A e \in expired :
       /\ e.timer = e.by
       /\ setCalls[e.by].ttl > 0
       /\ e.at >= setCalls[e.by].at + setCalls[e.by].ttl

\* ------------------------------------------------------------------- C21
\* The tokens of a request's Authorization header that the verifier accepts.
Accepted(c) ==
    {t \in Tokens :
        /\ IsSome(c.authorization)
        /\ \E j \in 1..Len(Val(c.authorization)) : Val(c.authorization)[j] = t
        /\ IsSome(Verify(Some(<<t>>)))}

\* C21 as stated: on every context, with or without a jwt verifier, the hook
\* lets a request through only if the request carried a token the verifier
\* accepts whose role is in the required role set, when one is required;
\* store.user is written only with the payload of such a token, and is unset
\* after every 401.
C21_PassOnlyVerified ==
    (IsSome(req) /\ "roles" \in DOMAIN Val(req)) =>
        LET rq == Val(req)
        IN /\ rq.hook = "passed" =>
                 \E t \in Accepted(rq.c) :
                    \/ ~IsSome(rq.roles)
                    \/ Val(Verify(Some(<<t>>))).role \in Val(rq.roles)
           /\ IsSome(rq.user) =>
                 \E t \in Accepted(rq.c) : rq.user = Verify(Some(<<t>>))
           /\ rq.status = 401 => ~IsSome(rq.user)

\* ------------------------------------------------------------------- C22
\* C22 as stated: every service class that Service was applied to has its
\* own instance in the container, whatever the names of the classes, and the
\* process goes on; and the argument an initializer passes for a dependency
\* on a class is an instance of that class.
C22_ContainerByIdentity ==
    /\ exited # ServiceExists
    /\ \A s \in ServiceClasses :
          serviceLog[s].decorated > 0 => serviceLog[s].constructed = 1
    /\ \A k \in Apps : \A j \in 1..Len(creates[k].built) :
          LET c == creates[k].built[j].cls
              args == creates[k].built[j].args
          IN \A x \in 1..Len(args) : args[x].cls = DependenciesOf(c)[x]

\* ------------------------------------------------------------------- C23
\* C23: when a custom extractor of a streaming handler rejects, the wrapped
\* handler delivers exactly one unit, the rejection, the handler body is
\* never started, nothing was produced by it, and when the wrapper ends it
\* ends normally.
C23_ExtractionErrorInBand ==
    (/\ IsSome(req)
     /\ Route(Val(req)).handler.wrapper = "asyncGenerator"
     /\ IsSome(Val(req).raised)
     /\ Val(Val(req).raised)[1] = "rejected") =>
        LET rq == Val(req) IN
        /\ Val(rq.raised) = Rejection(rq)
        /\ rq.pc \in {"caught", "done"}
        /\ rq.out = <<Rejection(rq)>>
        /\ rq.body = "not started" /\ rq.calls = 0 /\ rq.produced = <<>>
        /\ rq.pc = "done" => rq.end = "returned"

\* C23 witness: the second extractor of a streaming handler rejected after
\* the first had resolved; the wrapper delivered the rejection and ended.
C23_Witness ==
    /\ IsSome(req)
    /\ Route(Val(req)).handler.wrapper = "asyncGenerator"
    /\ Val(req).pc = "done" /\ Val(req).end = "returned" /\ Val(req).j = 2
    /\ Val(req).raised = Some(Rejection(Val(req)))
    /\ Val(req).out = <<Rejection(Val(req))>>
    /\ Val(req).body = "not started"

\* ----------------------------------------------------------- specifications
NoOpenApi == None
ListsOver(S) ==
    {l \in UNION {[1..n -> S] : n \in 1..MaxListed} : \A j \in 1..Len(l) : Defined(l[j])}
InClass(c) == IsSome(cur) /\ Val(cur).cls = c
Awaited == \A k \in 1..Len(creates) : creates[k].pc = "done"
CreateAwaited(auth) == Awaited /\ CreateCall(auth, TRUE, 0)
ScriptEnd == EndPass /\ creates # <<>>

\* Routing: applications of one or two controllers, the first with get and
\* post routes on paths with and without the leading "/", the second with
\* routes of the other methods on the default path; the script awaits each
\* create call and is one pass.
Next ==
    \/ \E c \in Controllers : BeginClass(c, <<>>)
    \/ BeginMethod(FALSE)
    \/ InClass("K1") /\ \E path \in Paths : Get(path, NoOpenApi)
    \/ InClass("K1") /\ Post(<<Slash, "b">>, NoOpenApi)
    \/ InClass("K1") /\ \E prefix \in Prefixes : Controller(prefix)
    \/ InClass("K2") /\ Put(DefaultPath, NoOpenApi)
    \/ InClass("K2") /\ Delete(DefaultPath, NoOpenApi)
    \/ InClass("K2") /\ Patch(DefaultPath, NoOpenApi)
    \/ InClass("K2") /\ Controller(<<Slash, "q">>)
    \/ \E l \in ListsOver(Controllers) : Module(l)
    \/ CreateAwaited(TRUE)
    \/ ScriptEnd
    \/ TickPublish
    \/ TickResolve
    \/ CreateResume
    \/ InitializerResume

Spec == Init /\ [][Next]_vars

\* Boot order: when the route metadata of the controllers is published and
\* when the initializers read it, for every split of the boot script into
\* passes, create calls that overlap, and beforeStart callbacks.
NextBoot ==
    \/ \E c \in Controllers : BeginClass(c, <<>>)
    \/ BeginMethod(FALSE)
    \/ Get(<<"a">>, NoOpenApi)
    \/ \E tag \in Tags : ApiTag(tag)
    \/ Controller(<<"p">>)
    \/ \E l \in ListsOver(Controllers) : Module(l)
    \/ \E nb \in {0, MaxBeforeStart} : CreateCall(TRUE, TRUE, nb)
    \/ EndPass
    \/ StartPass
    \/ TickPublish
    \/ TickResolve
    \/ CreateResume
    \/ InitializerResume

SpecBoot == Init /\ [][NextBoot]_vars

\* Authentication: a controller whose methods carry Public before or after
\* their route annotation, booted with or without an authentication hook, and
\* the requests its application then serves.
NextAuth ==
    \/ BeginClass("K1", <<>>)
    \/ BeginMethod(FALSE)
    \/ Public
    \/ Get(<<"a">>, NoOpenApi)
    \/ Controller(<<"p">>)
    \/ \E l \in ListsOver({"K1"}) : Module(l)
    \/ \E auth \in BOOLEAN : CreateAwaited(auth)
    \/ ScriptEnd
    \/ TickPublish
    \/ TickResolve
    \/ CreateResume
    \/ InitializerResume
    \/ \E k \in 1..MaxCreates, r \in 1..MaxRoutes : Request(k, r)
    \/ \E outcome \in {"passed", "answered", "threw"} : EngineBeforeHandle(outcome)
    \/ HandlerEnter
    \/ \E ok \in BOOLEAN : InvokeHandler(ok)
    \/ RequestEnd

SpecAuth == Init /\ [][NextAuth]_vars

\* Dependency injection: service classes, two of them of one name, declared
\* anywhere in the boot script's single pass; a controller and a socket class
\* whose constructors take services, declared or not; create calls that the
\* script does not await.
DepLists == {<<>>, <<"Store">>, <<"Mailer", "Store">>, <<"Store2">>}
Injectables == {"K1", "W1"}

NextDI ==
    \/ \E s \in ServiceClasses : Service(s)
    \/ \E c \in Injectables, deps \in DepLists : BeginClass(c, deps)
    \/ BeginMethod(FALSE)
    \/ Get(<<"a">>, NoOpenApi)
    \/ Controller(<<"p">>)
    \/ Open
    \/ Message(None)
    \/ Websocket(<<Slash, "ws">>, FALSE)
    \/ \E l \in ListsOver(Injectables) : Module(l)
    \/ CreateCall(TRUE, TRUE, 0)
    \/ ScriptEnd
    \/ TickPublish
    \/ TickResolve
    \/ CreateResume
    \/ InitializerResume

SpecDI == Init /\ [][NextDI]_vars

\* Parameters: a controller of one method whose parameters carry bindings of
\* every kind on distinct indices, and the requests its routes serve.
FreshIndex(index) == BoundAt(CurHandler, index) = {}
FirstMethod == IsSome(cur) /\ Val(cur).m = 0 /\ BeginMethod(FALSE)

NextParams ==
    \/ BeginClass("K1", <<>>)
    \/ FirstMethod
    \/ \E index \in Indices : RawContext(index) /\ FreshIndex(index)
    \/ \E index \in Indices : Body(None, index) /\ FreshIndex(index)
    \/ \E index \in Indices, slug \in Slugs : Param(slug, index) /\ FreshIndex(index)
    \/ \E index \in Indices : Query(None, index) /\ FreshIndex(index)
    \/ \E index \in Indices, extractor \in Extractors :
          CustomParameterDecorator(extractor, index) /\ FreshIndex(index)
    \/ Get(<<"a">>, NoOpenApi)
    \/ Controller(<<"p">>)
    \/ Defined("K1") /\ Module(<<"K1">>)
    \/ CreateAwaited(FALSE)
    \/ ScriptEnd
    \/ TickPublish
    \/ TickResolve
    \/ CreateResume
    \/ InitializerResume
    \/ \E k \in 1..MaxCreates, r \in 1..MaxRoutes : Request(k, r)
    \/ EngineBeforeHandle("passed")
    \/ HandlerEnter
    \/ ExtractCustom(TRUE)
    \/ InvokeHandler(TRUE)
    \/ RequestEnd

SpecParams == Init /\ [][NextParams]_vars

\* Streaming: a controller of generator and plain handlers, and requests
\* whose handler produces values, raises or returns.
NextStream ==
    \/ BeginClass("K1", <<>>)
    \/ \E gen \in BOOLEAN : BeginMethod(gen)
    \/ Get(<<"a">>, NoOpenApi)
    \/ Controller(<<"p">>)
    \/ Defined("K1") /\ Module(<<"K1">>)
    \/ CreateAwaited(FALSE)
    \/ ScriptEnd
    \/ TickPublish
    \/ TickResolve
    \/ CreateResume
    \/ InitializerResume
    \/ \E k \in 1..MaxCreates, r \in 1..MaxRoutes : Request(k, r)
    \/ EngineBeforeHandle("passed")
    \/ HandlerEnter
    \/ \E ok \in BOOLEAN : InvokeHandler(ok)
    \/ \E v \in Produced : IterateYield(v)
    \/ IterateThrow
    \/ IterateReturn
    \/ AfterCatch
    \/ RequestEnd

SpecStream == Init /\ [][NextStream]_vars

\* The authentication hook: requests with and without a jwt verifier, with
\* every header and required role set, to a controller of one route.
NextHook ==
    \/ BeginClass("K1", <<>>)
    \/ FirstMethod
    \/ Get(<<"a">>, NoOpenApi)
    \/ Controller(<<"p">>)
    \/ Defined("K1") /\ Module(<<"K1">>)
    \/ CreateAwaited(TRUE)
    \/ ScriptEnd
    \/ TickPublish
    \/ TickResolve
    \/ CreateResume
    \/ InitializerResume
    \/ \E k \in 1..MaxCreates, r \in 1..MaxRoutes, roles \in RoleSets, header \in Headers :
          AuthRequest(k, r, roles, JwtContext(header))
    \/ \E k \in 1..MaxCreates, r \in 1..MaxRoutes, roles \in RoleSets, header \in Headers :
          AuthRequest(k, r, roles, PlainContext(header))
    \/ onHandleAuthentication
    \/ VerifyResume
    \/ HandlerEnter
    \/ InvokeHandler(TRUE)
    \/ RequestEnd

SpecHook == Init /\ [][NextHook]_vars


\* beforeStart: awaited create calls with callbacks that await up to
\* MaxAwaits times each.
RECURSIVE AwaitLists(_)
AwaitLists(n) == IF n = 0 THEN {<<>>}
                 ELSE AwaitLists(n - 1) \cup
                      {Append(l, a) : l \in {x \in AwaitLists(n - 1) : Len(x) = n - 1},
                                      a \in 0..MaxAwaits}

NextStart ==
    \/ BeginClass("K1", <<>>)
    \/ FirstMethod
    \/ Get(<<"a">>, NoOpenApi)
    \/ Controller(<<"p">>)
    \/ Defined("K1") /\ Module(<<"K1">>)
    \/ \E awaits \in AwaitLists(MaxBeforeStart) : Awaited /\ CreateWith(TRUE, TRUE, awaits)
    \/ ScriptEnd
    \/ TickPublish
    \/ TickResolve
    \/ CallbackResume
    \/ CreateResume
    \/ InitializerResume

SpecStart == Init /\ [][NextStart]_vars


\* Invalid modules: a root class with or without Module, whose list holds
\* the controller and classes that were declared without Controller.
ListsWithPlain ==
    {l \in UNION {[1..n -> {"K1"} \cup PlainClasses] : n \in 1..MaxListed} :
        \A j \in 1..Len(l) : l[j] \in PlainClasses \/ Defined(l[j])}

NextFatal ==
    \/ BeginClass("K1", <<>>)
    \/ FirstMethod
    \/ Get(<<"a">>, NoOpenApi)
    \/ Controller(<<"p">>)
    \/ \E l \in ListsWithPlain : Module(l)
    \/ \E nb \in 0..MaxBeforeStart : Awaited /\ CreateCall(TRUE, TRUE, nb)
    \/ EndPass
    \/ StartPass
    \/ TickPublish
    \/ TickResolve
    \/ CreateResume
    \/ InitializerResume

SpecFatal == Init /\ [][NextFatal]_vars


\* Plain handlers: a handler with custom extractors, and requests in which
\* an extractor or the handler body may fail.
NextPlain ==
    \/ BeginClass("K1", <<>>)
    \/ FirstMethod
    \/ \E index \in Indices : RawContext(index) /\ FreshIndex(index)
    \/ \E index \in Indices, extractor \in Extractors :
          CustomParameterDecorator(extractor, index) /\ FreshIndex(index)
    \/ Get(<<"a">>, NoOpenApi)
    \/ Controller(<<"p">>)
    \/ Defined("K1") /\ Module(<<"K1">>)
    \/ CreateAwaited(FALSE)
    \/ ScriptEnd
    \/ TickPublish
    \/ TickResolve
    \/ CreateResume
    \/ InitializerResume
    \/ \E k \in 1..MaxCreates, r \in 1..MaxRoutes : Request(k, r)
    \/ EngineBeforeHandle("passed")
    \/ HandlerEnter
    \/ \E ok \in BOOLEAN : ExtractCustom(ok)
    \/ \E ok \in BOOLEAN : InvokeHandler(ok)
    \/ RequestEnd

SpecPlain == Init /\ [][NextPlain]_vars


\* Sockets: a socket class declared public or not, with or without an open
\* hook, booted with or without an authentication hook, and the upgrade
\* requests its application then serves.
NextSocket ==
    \/ BeginClass("W1", <<>>)
    \/ Open
    \/ Close
    \/ Message(None)
    \/ \E public \in BOOLEAN : Websocket(<<Slash, "ws">>, public)
    \/ Defined("W1") /\ Module(<<"W1">>)
    \/ \E auth \in BOOLEAN : CreateAwaited(auth)
    \/ ScriptEnd
    \/ TickResolve
    \/ CreateResume
    \/ InitializerResume
    \/ \E k \in 1..MaxCreates : SocketConnect(k, 1)
    \/ \E outcome \in {"passed", "answered", "threw"} : SocketBeforeHandle(outcome)
    \/ SocketOpen
    \/ RequestEnd

SpecSocket == Init /\ [][NextSocket]_vars


\* Annotations: one method with parameter annotations on distinct
\* parameters, and Public before or after its route annotation.
NextAnnot ==
    \/ BeginClass("K1", <<>>)
    \/ FirstMethod
    \/ \E index \in Indices : RawContext(index) /\ FreshIndex(index)
    \/ \E index \in Indices : Body(None, index) /\ FreshIndex(index)
    \/ \E index \in Indices, slug \in Slugs : Param(slug, index) /\ FreshIndex(index)
    \/ \E index \in Indices : Query(None, index) /\ FreshIndex(index)
    \/ \E index \in Indices, extractor \in Extractors :
          CustomParameterDecorator(extractor, index) /\ FreshIndex(index)
    \/ Public
    \/ Get(<<"a">>, NoOpenApi)
    \/ Controller(<<"p">>)
    \/ Defined("K1") /\ Module(<<"K1">>)
    \/ CreateAwaited(FALSE)
    \/ ScriptEnd
    \/ TickPublish
    \/ TickResolve
    \/ CreateResume
    \/ InitializerResume

SpecAnnot == Init /\ [][NextAnnot]_vars


\* Registrations: plain and generator methods, with or without Public and
\* an openapi argument, booted with or without each hook.
OpenApis == {NoOpenApi,
             Some([detail |-> [security |-> <<"ApiKeyAuth">>], response |-> "schema"])}

NextRoute ==
    \/ BeginClass("K1", <<>>)
    \/ \E gen \in BOOLEAN : BeginMethod(gen)
    \/ Public
    \/ \E openapi \in OpenApis : Get(<<"a">>, openapi)
    \/ Controller(<<"p">>)
    \/ Defined("K1") /\ Module(<<"K1">>)
    \/ \E auth, response \in BOOLEAN : Awaited /\ CreateCall(auth, response, 0)
    \/ ScriptEnd
    \/ TickPublish
    \/ TickResolve
    \/ CreateResume
    \/ InitializerResume

SpecRoute == Init /\ [][NextRoute]_vars


\* The cache: set, del and get calls on two keys while time passes.
NextCache ==
    \/ \E key \in Keys, ttlSeconds \in Ttls : set(key, ttlSeconds)
    \/ \E key \in Keys : del(key)
    \/ \E t \in timers : TimerFire(t)
    \/ Elapse

SpecCache == Init /\ [][NextCache]_vars

\* Streaming with extractors: a generator handler with custom extractors,
\* and requests in which an extractor may reject or the iteration may raise.
FirstGenerator == IsSome(cur) /\ Val(cur).m = 0 /\ BeginMethod(TRUE)

NextExtract ==
    \/ BeginClass("K1", <<>>)
    \/ FirstGenerator
    \/ \E index \in Indices : RawContext(index) /\ FreshIndex(index)
    \/ \E index \in Indices, extractor \in Extractors :
          CustomParameterDecorator(extractor, index) /\ FreshIndex(index)
    \/ Get(<<"a">>, NoOpenApi)
    \/ Controller(<<"p">>)
    \/ Defined("K1") /\ Module(<<"K1">>)
    \/ CreateAwaited(FALSE)
    \/ ScriptEnd
    \/ TickPublish
    \/ TickResolve
    \/ CreateResume
    \/ InitializerResume
    \/ \E k \in 1..MaxCreates, r \in 1..MaxRoutes : Request(k, r)
    \/ EngineBeforeHandle("passed")
    \/ HandlerEnter
    \/ \E ok \in BOOLEAN : ExtractCustom(ok)
    \/ InvokeHandler(TRUE)
    \/ \E v \in Produced : IterateYield(v)
    \/ IterateThrow
    \/ IterateReturn
    \/ AfterCatch
    \/ RequestEnd

SpecExtract == Init /\ [][NextExtract]_vars


====
